---- MODULE Spec2Model ----
(***************************************************************************)
(* State-machine model of app.py (AI football analyser): the retrying      *)
(* model invoker call_gemini_safe, the reply parser at the tail of         *)
(* analyze_match_final, the performance ledger (save_result,               *)
(* get_learning_context, init_session), the model catalogue                *)
(* fetch_available_models, the evidence search search_web and the          *)
(* Streamlit handlers that drive them, both as whole handlers (Spec) and   *)
(* as one run of the analysis button step by step (SpecPipeline).          *)
(*                                                                         *)
(* Texts are sequences of tokens (strings); a token stands for a run of    *)
(* characters of the real text.  Python's substring test `m in text` is    *)
(* modelled by Occurs/In.  Korean literals of the source are written in    *)
(* ASCII, with the original in the comment beside them.                    *)
(***************************************************************************)
EXTENDS Naturals, Sequences, FiniteSets, TLC

VARIABLES
    \* call_gemini_safe (one call, step by step)
    pc,            \* position inside call_gemini_safe: "idle", "loop", "sleep", "returned"
    attempt,       \* the loop variable of `for attempt in range(max_retries)`
    model_name,    \* the model identifier the call is made with
    raw_text,      \* the value call_gemini_safe returned (NoText before it returns)
    log,           \* observable effects of the current call, in order
    outcomes,      \* what the provider answered to each generate_content of the call
    \* the tail of analyze_match_final
    result,        \* the dict analyze_match_final returned for raw_text
    \* the Streamlit session and the ledger file
    history,       \* st.session_state.history: the in-memory ledger, a sequence of rows
    store,         \* match_history.csv: absent, or the rows of cell texts last written
    last_analysis, \* st.session_state.last_analysis: None or the parsed reply
    home_in,       \* the home-team text input
    away_in,       \* the away-team text input
    shown,         \* what the last script run displayed for the analysis button
    ctx,           \* the string get_learning_context returned last
    \* one run of the analysis button, step by step
    stage,         \* position inside the handler of lines 196-229
    run_in,        \* the widget values the run read: api_key, use_search, files, model_name
    search_res,    \* the local search_res of the handler (NoText while unbound)
    ddgs,          \* what the search provider did when search_web called it
    analysed,      \* the (home_in, away_in) of the run whose result is in last_analysis
    \* the model catalogue
    available_models, \* st.session_state.available_models
    catalog        \* the last call of fetch_available_models: the provider's answer and the return value

invokerVars == <<pc, attempt, model_name, raw_text, log, outcomes>>

sessionVars == <<history, store, last_analysis, home_in, away_in, shown>>

runVars == <<stage, run_in, search_res, ddgs>>

catalogVars == <<available_models, catalog>>

vars == <<invokerVars, result, sessionVars, ctx, runVars, analysed, catalogVars>>

-----------------------------------------------------------------------------
(* Texts and substring tests.                                              *)

NoText == <<>>

\* `m in tok`: whether the characters of marker m occur inside token tok.
Occurs(m, tok) ==
    CASE m = "429"    -> tok \in {"429", "gemini-429"}
      [] m = "quota"  -> tok \in {"quota"}
      [] m = "404"    -> tok \in {"404"}
      [] m = "ERROR:" -> tok \in {"ERROR:", "reason=ERROR: no data"}
      [] m = "{"      -> tok \in {"{"}
      [] m = "}"      -> tok \in {"}"}
      [] OTHER        -> FALSE

\* str.lower() on one token.
Lower(tok) == IF tok = "Quota" THEN "quota" ELSE tok

LowerText(text) == [i \in 1..Len(text) |-> Lower(text[i])]

\* Python `m in text`.
In(m, text) == \E i \in 1..Len(text) : Occurs(m, text[i])

-----------------------------------------------------------------------------
(* Python values held in ledger cells, and the CSV file (pandas).          *)

\* A cell value: a str, an int64, a float64 with an integral value, or NaN.
Str(x) == [t |-> "str", s |-> x, n |-> 0]

Int(k) == [t |-> "int", s |-> "", n |-> k]

Float(k) == [t |-> "float", s |-> "", n |-> k]

NaN == [t |-> "nan", s |-> "", n |-> 0]

\* Python's == on two cell values (line 36 applies it to two strs).
PyEq(a, b) ==
    IF a.t = "nan" \/ b.t = "nan" THEN FALSE
    ELSE IF a.t = "str" /\ b.t = "str" THEN a.s = b.s
    ELSE IF a.t \in {"int", "float"} /\ b.t \in {"int", "float"} THEN a.n = b.n
    ELSE FALSE

\* The decimal numerals that occur in the texts of the model.
Numerals == { [n |-> 1860, int |-> "1860", float |-> "1860.0"] }

IntText(k) == (CHOOSE d \in Numerals : d.n = k).int

FloatText(k) == (CHOOSE d \in Numerals : d.n = k).float

IsIntText(x) == \E d \in Numerals : d.int = x

IsFloatText(x) == \E d \in Numerals : d.float = x \/ d.int = x

NumberOf(x) == (CHOOSE d \in Numerals : d.float = x \/ d.int = x).n

\* pandas.read_csv's default na_values, as far as the texts of the model go.
NaStrings == {"", "NA"}

\* The value columns of the ledger; "Correct" is the boolean column.
ValueColumns == {"Date", "Home", "Away", "AI_Pick", "Result"}

\* DataFrame.to_csv on one cell (na_rep = "").
WriteCell(v) ==
    CASE v.t = "str"   -> v.s
      [] v.t = "int"   -> IntText(v.n)
      [] v.t = "float" -> FloatText(v.n)
      [] v.t = "nan"   -> ""

WriteBool(b) == IF b THEN "True" ELSE "False"

\* history.to_csv(HISTORY_FILE, index=False), line 39: every row, in order.
WriteCsv(rows) ==
    [i \in 1..Len(rows) |->
        [c \in ValueColumns |-> WriteCell(rows[i][c])]
          @@ [Correct |-> WriteBool(rows[i].Correct)]]

\* pandas.read_csv's type inference on one column of cell texts: the cells in
\* na_values are missing; if the others are all integers the column is int64
\* (float64 when a cell is missing), if all are numbers float64, else object.
InferCell(cells, i) ==
    LET present == {j \in 1..Len(cells) : cells[j] \notin NaStrings}
        missing == i \notin present
        allInt == \A j \in present : IsIntText(cells[j])
        allNum == \A j \in present : IsFloatText(cells[j])
    IN  IF allInt /\ present = 1..Len(cells) THEN Int(NumberOf(cells[i]))
        ELSE IF missing THEN NaN
        ELSE IF allNum THEN Float(NumberOf(cells[i]))
        ELSE Str(cells[i])

\* pd.read_csv(HISTORY_FILE), line 22.
ReadCsv(file) ==
    [i \in 1..Len(file) |->
        [c \in ValueColumns |->
            InferCell([j \in 1..Len(file) |-> file[j][c]], i)]
          @@ [Correct |-> (file[i].Correct = "True")]]

\* The file: absent until the first save_result.
NoFile == [exists |-> FALSE, rows |-> <<>>]

File(rows) == [exists |-> TRUE, rows |-> rows]

-----------------------------------------------------------------------------
(* The performance ledger, lines 19-46.                                    *)

\* datetime.now().strftime("%Y-%m-%d")
Today == "2026-11-01"

\* new_data of save_result, lines 33-37.
NewData(home, away, ai_pick, actual_result) ==
    [Date |-> Str(Today), Home |-> home, Away |-> away, AI_Pick |-> ai_pick,
     Result |-> actual_result, Correct |-> PyEq(ai_pick, actual_result)]

\* pd.concat([history, DataFrame([new_data])], ignore_index=True), line 38.
Concat(df, row) == Append(df, row)

\* len(df[df['Correct']==True]), lines 45 and 181.
NumCorrect(df) == Cardinality({i \in 1..Len(df) : df[i].Correct})

\* f"{acc:.1f}" of acc = (correct/total)*100, in tenths of a percent: the
\* nearest tenth (an exact half goes to the even tenth).
OneDecimalTruncates(correct, total) == (1000 * correct) \div total

OneDecimal(correct, total) ==
    LET q == (1000 * correct) \div total
        r == (1000 * correct) % total
    IN  IF 2 * r > total THEN q + 1
        ELSE IF 2 * r < total THEN q
        ELSE IF q % 2 = 0 THEN q ELSE q + 1

\* "학습 기록 없음 (첫 분석)"
NoHistoryText == [empty |-> TRUE, total |-> 0, acc |-> 0]

\* get_learning_context, lines 41-46: f"총 분석: {total}회 | 적중률: {acc:.1f}%"
LearningContext(df) ==
    IF df = <<>> THEN NoHistoryText
    ELSE [empty |-> FALSE, total |-> Len(df), acc |-> OneDecimal(NumCorrect(df), Len(df))]

\* No call of get_learning_context has returned yet.
NoContext == [empty |-> FALSE, total |-> 0, acc |-> 0]

-----------------------------------------------------------------------------
(* The provider behind model.generate_content.                             *)

\* Model identifiers the user can select or type (sidebar, lines 172-176).
ModelNames == {"gemini-pro", "gemini-429"}

\* Raw reply texts a successful generate_content can carry.
Replies ==
    { <<"{", "winner=A", "}">>,
      <<"Sure:", "{", "winner=NA", "score=2-1", "}", "Good luck">>,
      <<"{", "winner=B", "}">>,
      <<"{", "winner=1860", "}">>,
      <<"{", "winner=Draw", "}">>,
      <<"{", "score=2-1", "}">>,
      <<"{", "}">>,
      <<"{", "error=refused", "}">>,
      <<"I cannot answer">>,
      <<"{", "winner=A">>,
      <<"{", "winner=A", "}", "or", "{", "winner=Draw", "}">>,
      <<"{", "winner=A", "reason=ERROR: no data", "}">> }

\* str(e) of the exceptions generate_content can raise for model m.
\* The provider's not-found message names the model it was asked for.
ErrMsgs(m) ==
    { <<"429", "Resource has been exhausted">>,
      <<"Quota", "exceeded for metric">>,
      <<"404", m, "is not found">>,
      <<"500", "internal error">>,
      <<"Deadline Exceeded">> }

ProviderOutcomes(m) ==
    { [ok |-> TRUE, text |-> t] : t \in Replies } \cup
    { [ok |-> FALSE, text |-> e] : e \in ErrMsgs(m) }

-----------------------------------------------------------------------------
(* call_gemini_safe, lines 68-90.                                          *)

max_retries_off_by_one == 3 + 1

max_retries == 3

wait == 60

\* The if / elif / else of lines 82-89.
ClassifyRetriesEverything(err_msg) == "rate"

Classify(err_msg) ==
    IF In("429", err_msg) \/ In("quota", LowerText(err_msg)) THEN "rate"
    ELSE IF In("404", err_msg) THEN "notfound"
    ELSE "other"

\* "ERROR: 모델을 찾을 수 없습니다 ({model_name}). 모델 설정을 변경하세요."
NotFoundText(m) == <<"ERROR:", "model not found (", m, "). change the model setting.">>

\* f"ERROR: {err_msg}"
OtherErrorText(err_msg) == <<"ERROR:">> \o err_msg

\* "ERROR: 재시도 횟수 초과"
ExhaustedText == <<"ERROR:", "retry count exceeded">>

\* `return response.text`
ResponseTextTruncated(o) == SubSeq(o.text, 1, Len(o.text) - 1)

ResponseText(o) == o.text

Event(ev, arg) == [ev |-> ev, arg |-> arg]

\* Entry of call_gemini_safe (lines 72-76): configure, build the model, start the loop.
Call(m) ==
    /\ pc \in {"idle", "returned"}
    /\ pc' = "loop"
    /\ model_name' = m
    /\ attempt' = 0
    /\ raw_text' = NoText
    /\ log' = <<>>
    /\ outcomes' = <<>>
    /\ UNCHANGED <<runVars, analysed, catalogVars, result, sessionVars, ctx>>

\* Lines 78-79: generate_content succeeds and its text is returned.
AttemptOk ==
    /\ pc = "loop"
    /\ attempt < max_retries
    /\ \E o \in ProviderOutcomes(model_name) :
        /\ o.ok
        /\ outcomes' = Append(outcomes, o)
        /\ log' = Append(log, Event("generate_content", attempt + 1))
        /\ raw_text' = ResponseText(o)
    /\ pc' = "returned"
    /\ UNCHANGED <<runVars, analysed, catalogVars, attempt, model_name, result, sessionVars, ctx>>

\* Lines 80-85: the call raises a rate-limit error; st.warning is shown, then
\* the thread goes to sleep.
AttemptRateLimit ==
    /\ pc = "loop"
    /\ attempt < max_retries
    /\ \E o \in ProviderOutcomes(model_name) :
        /\ ~o.ok
        /\ Classify(o.text) = "rate"
        /\ outcomes' = Append(outcomes, o)
        /\ log' = log \o <<Event("generate_content", attempt + 1),
                           Event("st.warning", attempt + 1)>>
    /\ pc' = "sleep"
    /\ UNCHANGED <<runVars, analysed, catalogVars, attempt, model_name, raw_text, result, sessionVars, ctx>>

\* Line 85, then the next iteration of the for loop.
Sleep ==
    /\ pc = "sleep"
    /\ log' = Append(log, Event("time.sleep", wait))
    /\ attempt' = attempt + 1
    /\ pc' = "loop"
    /\ UNCHANGED <<runVars, analysed, catalogVars, model_name, raw_text, outcomes, result, sessionVars, ctx>>

\* Lines 86-87.
AttemptNotFound ==
    /\ pc = "loop"
    /\ attempt < max_retries
    /\ \E o \in ProviderOutcomes(model_name) :
        /\ ~o.ok
        /\ Classify(o.text) = "notfound"
        /\ outcomes' = Append(outcomes, o)
        /\ log' = Append(log, Event("generate_content", attempt + 1))
    /\ raw_text' = NotFoundText(model_name)
    /\ pc' = "returned"
    /\ UNCHANGED <<runVars, analysed, catalogVars, attempt, model_name, result, sessionVars, ctx>>

\* Lines 88-89.
AttemptOtherError ==
    /\ pc = "loop"
    /\ attempt < max_retries
    /\ \E o \in ProviderOutcomes(model_name) :
        /\ ~o.ok
        /\ Classify(o.text) = "other"
        /\ outcomes' = Append(outcomes, o)
        /\ log' = Append(log, Event("generate_content", attempt + 1))
        /\ raw_text' = OtherErrorText(o.text)
    /\ pc' = "returned"
    /\ UNCHANGED <<runVars, analysed, catalogVars, attempt, model_name, result, sessionVars, ctx>>

\* Line 90: the loop ran out.
Exhausted ==
    /\ pc = "loop"
    /\ attempt >= max_retries
    /\ raw_text' = ExhaustedText
    /\ pc' = "returned"
    /\ UNCHANGED <<runVars, analysed, catalogVars, attempt, model_name, log, outcomes, result, sessionVars, ctx>>

-----------------------------------------------------------------------------
(* call_gemini_safe as one function of the provider's answers.             *)

\* outs[k] is what the provider answers to the k-th generate_content.
RECURSIVE GeminiLoop(_, _, _)
GeminiLoop(m, outs, k) ==
    IF k >= max_retries \/ k >= Len(outs) THEN ExhaustedText
    ELSE LET o == outs[k + 1]
         IN  IF o.ok THEN ResponseText(o)
             ELSE CASE Classify(o.text) = "rate"     -> GeminiLoop(m, outs, k + 1)
                    [] Classify(o.text) = "notfound" -> NotFoundText(m)
                    [] OTHER                         -> OtherErrorText(o.text)

CallGeminiSafe(m, outs) == GeminiLoop(m, outs, 0)

\* Every text call_gemini_safe can return, over the models and the provider's
\* answers to the (at most max_retries) attempts.
InvokerReturns ==
    UNION { { CallGeminiSafe(m, outs) : outs \in [1..max_retries -> ProviderOutcomes(m)] } :
            m \in ModelNames }

-----------------------------------------------------------------------------
(* The tail of analyze_match_final, lines 138-148.                         *)

\* A Python dict of the handler, or None: the keys it has and the values the
\* handlers read (result['winner'], result['error'], result['raw']).
None == [isNone |-> TRUE, keys |-> {}, winner |-> "", error |-> <<>>, raw |-> <<>>]

Dict(keys, winner, error, raw) ==
    [isNone |-> FALSE, keys |-> keys, winner |-> winner, error |-> error, raw |-> raw]

\* Python truthiness of a dict or None (lines 215, 223, 232).
Truthy(d) == ~d.isNone /\ d.keys # {}

\* The tokens that stand for one `"key": value` member of a JSON object.
WinnerTokens == {"winner=A", "winner=B", "winner=NA", "winner=1860", "winner=Draw"}

MemberTokens ==
    WinnerTokens \cup {"score=2-1", "error=refused", "reason=ERROR: no data"}

MemberKey(tok) ==
    CASE tok \in WinnerTokens           -> "winner"
      [] tok = "score=2-1"              -> "score"
      [] tok = "error=refused"          -> "error"
      [] tok = "reason=ERROR: no data"  -> "reason"

WinnerValue(tok) ==
    CASE tok = "winner=A"    -> "A"
      [] tok = "winner=B"    -> "B"
      [] tok = "winner=NA"   -> "NA"
      [] tok = "winner=1860" -> "1860"
      [] tok = "winner=Draw" -> "Draw"

\* re.search(r'\{.*\}', raw_text, re.DOTALL), line 144: from the first "{" to
\* the last "}" after it.
Opens(text) == {i \in 1..Len(text) : Occurs("{", text[i])}

Closes(text) == {j \in 1..Len(text) : Occurs("}", text[j])}

FirstOpen(text) == CHOOSE i \in Opens(text) : \A k \in Opens(text) : i <= k

LastClose(text) == CHOOSE j \in Closes(text) : \A k \in Closes(text) : k <= j

HasMatch(text) ==
    /\ Opens(text) # {}
    /\ Closes(text) # {}
    /\ FirstOpen(text) < LastClose(text)

MatchGroup(text) == SubSeq(text, FirstOpen(text), LastClose(text))

\* Whether json.loads accepts the span: "{", members, "}".
IsJsonObject(span) ==
    /\ Len(span) >= 2
    /\ span[1] = "{"
    /\ span[Len(span)] = "}"
    /\ \A i \in 2..(Len(span) - 1) : span[i] \in MemberTokens

\* json.loads on an accepted span: for a repeated key the last member wins.
JsonLoads(span) ==
    LET members == 2..(Len(span) - 1)
        winners == {i \in members : MemberKey(span[i]) = "winner"}
        lastWinner == CHOOSE i \in winners : \A k \in winners : k <= i
    IN  Dict({MemberKey(span[i]) : i \in members},
             IF winners = {} THEN "" ELSE WinnerValue(span[lastWinner]),
             IF \E i \in members : MemberKey(span[i]) = "error"
                 THEN <<"refused">> ELSE <<>>,
             <<>>)

\* {"error": "JSON 파싱 실패", "raw": raw_text}, line 146.
NoJsonFound(text) == Dict({"error", "raw"}, "", <<"JSON parse failed">>, text)

\* {"error": str(e)}, line 148: the decoder's message, not the text.
JsonError(text) == Dict({"error"}, "", <<"JSONDecodeError message">>, <<>>)

\* {"error": raw_text}, line 141.
InvokerError(text) == Dict({"error"}, "", text, <<>>)

\* Lines 143-148: the JSON extraction.
ExtractJson(text) ==
    IF ~HasMatch(text) THEN NoJsonFound(text)
    ELSE IF IsJsonObject(MatchGroup(text)) THEN JsonLoads(MatchGroup(text))
    ELSE JsonError(text)

\* Lines 140-148.
AnalyzeReply(text) ==
    IF In("ERROR:", text) THEN InvokerError(text)
    ELSE ExtractJson(text)

-----------------------------------------------------------------------------
(* The Streamlit session: init_session and the button handlers.            *)

\* The fixtures the user types into the two text inputs, lines 186-187.
Fixtures == { <<"A", "B">>, <<"NA", "1860">> }

DefaultFixture == <<"A", "B">>

\* "무승부", line 247.
DrawLabel == "musungbu"

\* The outcomes reported in the session model (Spec), and the rows of the
\* ledger in the ledger model (SpecLedger).
MaxRecorded == 1

MaxLedger == 2

\* The longest ledger of SpecContext and the longest text of SpecParse.
MaxContextLedger == 6

MaxTextLen == 4

\* What the provider behind search_web does, and the uploaded files.
SearchBehaviours == {"results", "no results", "text() raises", "DDGS() raises"}

FileBehaviours == {"no files", "images", "not an image"}

\* Lines 201-213 up to the call of analyze_match_final: whether an exception
\* reaches the handler's except clause (DDGS() of line 96 is outside
\* search_web's try; Image.open of line 211 raises on a file it cannot read).
RunRaises(use_search, search, files) ==
    \/ use_search /\ search = "DDGS() raises"
    \/ files = "not an image"

IdleInvoker ==
    /\ pc = "idle"
    /\ attempt = 0
    /\ raw_text = NoText
    /\ log = <<>>
    /\ outcomes = <<>>

\* No run of the analysis button has read its widgets yet.
NoRun == [api_key |-> FALSE, use_search |-> FALSE, files |-> "no files", model_name |-> ""]

\* search_web has not called the provider.
NoSearch == [kind |-> "none", bodies |-> <<>>, msg |-> <<>>]

\* last_analysis holds no run's result.
NoFixture == <<>>

\* fetch_available_models has not been called.
NoCatalog == [called |-> FALSE, fails |-> "no", listed |-> <<>>, found |-> <<>>]

\* The handler of the analysis button is not running and nothing is bound.
IdleRun ==
    /\ stage = "idle"
    /\ run_in = NoRun
    /\ search_res = NoText
    /\ ddgs = NoSearch

\* init_session on a fresh session_state, lines 19-28, and the widget defaults.
FreshSession ==
    /\ last_analysis = None
    /\ home_in = DefaultFixture[1]
    /\ away_in = DefaultFixture[2]
    /\ shown = "none"
    /\ IdleRun
    /\ analysed = NoFixture
    /\ available_models = <<>>
    /\ catalog = NoCatalog

\* save_result, lines 32-39.
SaveResult(home, away, ai_pick, actual_result) ==
    /\ history' = Concat(history, NewData(home, away, ai_pick, actual_result))
    /\ store' = File(WriteCsv(history'))

\* The sidebar and upload widgets (api_key, model_name, use_search, files) are
\* read afresh by every script run: they are inputs of the click, as are the
\* answers of the search provider and of the model.

\* What analyze_match_final can return to the handler, line 213.
AnalysisResults == { AnalyzeReply(text) : text \in InvokerReturns }

HasWinner(r) == Truthy(r) /\ "winner" \in r.keys

HasError(r) == Truthy(r) /\ "error" \in r.keys

\* The inputs with which a run raises before the model call.
RaisingRuns ==
    { in \in BOOLEAN \X SearchBehaviours \X FileBehaviours : RunRaises(in[1], in[2], in[3]) }

\* Lines 196-198: the analysis button without an API key.
AnalyzeNoKey ==
    /\ shown' = "no key"
    /\ UNCHANGED <<runVars, analysed, catalogVars, invokerVars, result, history, store, last_analysis, home_in, away_in, ctx>>

\* Lines 201-213 and 228-229: an exception on the way to the model call.
AnalyzeSystemError ==
    /\ RaisingRuns # {}
    /\ shown' = "system error"
    /\ UNCHANGED <<runVars, analysed, catalogVars, invokerVars, result, history, store, last_analysis, home_in, away_in, ctx>>

\* Lines 213-222: the reply parsed to a dict with a winner.
AnalyzeStoresAnyResult ==
    /\ \E r \in AnalysisResults :
          /\ Truthy(r)
          /\ last_analysis' = r
    /\ analysed' = <<home_in, away_in>>
    /\ shown' = "complete"
    /\ UNCHANGED <<runVars, catalogVars, invokerVars, result, history, store, home_in, away_in, ctx>>

AnalyzeCompleteAlsoSaves ==
    /\ Len(history) < MaxRecorded
    /\ \E r \in AnalysisResults :
          /\ HasWinner(r)
          /\ last_analysis' = r
          /\ SaveResult(Str(home_in), Str(away_in), Str(r.winner), Str(r.winner))
    /\ analysed' = <<home_in, away_in>>
    /\ shown' = "complete"
    /\ UNCHANGED <<runVars, catalogVars, invokerVars, result, home_in, away_in, ctx>>

AnalyzeComplete ==
    /\ \E r \in AnalysisResults :
          /\ HasWinner(r)
          /\ last_analysis' = r
    /\ analysed' = <<home_in, away_in>>
    /\ shown' = "complete"
    /\ UNCHANGED <<runVars, catalogVars, invokerVars, result, history, store, home_in, away_in, ctx>>

\* Lines 223-225: an error dict.
AnalyzeError ==
    /\ {r \in AnalysisResults : ~HasWinner(r) /\ HasError(r)} # {}
    /\ shown' = "error"
    /\ UNCHANGED <<runVars, analysed, catalogVars, invokerVars, result, history, store, last_analysis, home_in, away_in, ctx>>

\* Lines 226-227: neither.
AnalyzeFailed ==
    /\ {r \in AnalysisResults : ~HasWinner(r) /\ ~HasError(r)} # {}
    /\ shown' = "failed"
    /\ UNCHANGED <<runVars, analysed, catalogVars, invokerVars, result, history, store, last_analysis, home_in, away_in, ctx>>

\* Line 246: the home-win button of the result view (line 232).
ClickHomeWin ==
    /\ Truthy(last_analysis)
    /\ Len(history) < MaxRecorded
    /\ SaveResult(Str(home_in), Str(away_in), Str(last_analysis.winner), Str(home_in))
    /\ shown' = "none"
    /\ UNCHANGED <<runVars, analysed, catalogVars, invokerVars, result, last_analysis, home_in, away_in, ctx>>

\* Line 247: the draw button.
ClickDraw ==
    /\ Truthy(last_analysis)
    /\ Len(history) < MaxRecorded
    /\ SaveResult(Str(home_in), Str(away_in), Str(last_analysis.winner), Str(DrawLabel))
    /\ shown' = "none"
    /\ UNCHANGED <<runVars, analysed, catalogVars, invokerVars, result, last_analysis, home_in, away_in, ctx>>

\* Line 248: the away-win button.
ClickAwayWin ==
    /\ Truthy(last_analysis)
    /\ Len(history) < MaxRecorded
    /\ SaveResult(Str(home_in), Str(away_in), Str(last_analysis.winner), Str(away_in))
    /\ shown' = "none"
    /\ UNCHANGED <<runVars, analysed, catalogVars, invokerVars, result, last_analysis, home_in, away_in, ctx>>

\* Lines 186-187: the user types another fixture; the script reruns.
EditFixture(f) ==
    /\ f # <<home_in, away_in>>
    /\ home_in' = f[1]
    /\ away_in' = f[2]
    /\ shown' = "none"
    /\ UNCHANGED <<runVars, analysed, catalogVars, invokerVars, result, history, store, last_analysis, ctx>>

\* Lines 19-30: a new session starts and loads the ledger file if there is one.
NewSession ==
    /\ history' = IF store.exists THEN ReadCsv(store.rows) ELSE <<>>
    /\ last_analysis' = None
    /\ home_in' = DefaultFixture[1]
    /\ away_in' = DefaultFixture[2]
    /\ shown' = "none"
    /\ analysed' = NoFixture
    /\ available_models' = <<>>
    /\ UNCHANGED <<runVars, catalog, invokerVars, result, store, ctx>>

Init ==
    /\ IdleInvoker
    /\ model_name = "gemini-pro"
    /\ result = None
    /\ history = <<>>
    /\ store = NoFile
    /\ FreshSession
    /\ ctx = NoContext

Next ==
    \/ AnalyzeNoKey
    \/ AnalyzeSystemError
    \/ AnalyzeComplete
    \/ AnalyzeError
    \/ AnalyzeFailed
    \/ ClickHomeWin
    \/ ClickDraw
    \/ ClickAwayWin
    \/ \E f \in Fixtures : EditFixture(f)
    \/ NewSession

Spec == Init /\ [][Next]_vars

-----------------------------------------------------------------------------
(* The ledger on its own: save_result and the reload of init_session.      *)

\* The winners a parsed reply can name.
Winners == { WinnerValue(tok) : tok \in WinnerTokens }

\* save_result with the arguments the three buttons of lines 246-248 pass.
Record(f, ai_pick, actual_result) ==
    /\ Len(history) < MaxLedger
    /\ SaveResult(Str(f[1]), Str(f[2]), Str(ai_pick), Str(actual_result))
    /\ UNCHANGED <<runVars, analysed, catalogVars, invokerVars, result, last_analysis, home_in, away_in, shown, ctx>>

NextLedger ==
    \/ \E f \in Fixtures, ai_pick \in Winners :
          \E actual_result \in {f[1], DrawLabel, f[2]} : Record(f, ai_pick, actual_result)
    \/ NewSession

SpecLedger == Init /\ [][NextLedger]_vars

-----------------------------------------------------------------------------
(* get_learning_context on its own, over the ledgers of one fixture.       *)

\* The ledgers of up to MaxContextLedger rows that save_result builds for the
\* default fixture and the pick "A": a home win is correct, an away win is not.
RECURSIVE LedgerOf(_)
LedgerOf(flags) ==
    IF flags = <<>> THEN <<>>
    ELSE Concat(LedgerOf(SubSeq(flags, 1, Len(flags) - 1)),
                NewData(Str("A"), Str("B"), Str("A"),
                        IF flags[Len(flags)] THEN Str("A") ELSE Str("B")))

ContextLedgers ==
    UNION { { LedgerOf(flags) : flags \in [1..n -> BOOLEAN] } : n \in 0..MaxContextLedger }

InitContext ==
    /\ IdleInvoker
    /\ model_name = "gemini-pro"
    /\ result = None
    /\ history \in ContextLedgers
    /\ store = IF history = <<>> THEN NoFile ELSE File(WriteCsv(history))
    /\ FreshSession
    /\ ctx = NoContext

\* ctx = get_learning_context(), line 210.
GetLearningContext ==
    /\ ctx' = LearningContext(history)
    /\ UNCHANGED <<runVars, analysed, catalogVars, invokerVars, result, sessionVars>>

NextContext == GetLearningContext

SpecContext == InitContext /\ [][NextContext]_vars

-----------------------------------------------------------------------------
(* The tail of analyze_match_final on its own, over all short texts.       *)

Alphabet == {"{", "}", "winner=Draw", "score=2-1", "prose", "ERROR:"}

Texts == UNION { [1..n -> Alphabet] : n \in 0..MaxTextLen }

\* call_gemini_safe has returned the text of a first attempt that succeeded.
InitParse ==
    /\ pc = "returned"
    /\ attempt = 0
    /\ model_name = "gemini-pro"
    /\ raw_text \in Texts
    /\ log = <<Event("generate_content", 1)>>
    /\ outcomes = <<[ok |-> TRUE, text |-> raw_text]>>
    /\ result = None
    /\ history = <<>>
    /\ store = NoFile
    /\ FreshSession
    /\ ctx = NoContext

\* Lines 140-148.
ParseReply ==
    /\ pc = "returned"
    /\ result' = AnalyzeReply(raw_text)
    /\ pc' = "idle"
    /\ UNCHANGED <<runVars, analysed, catalogVars, attempt, model_name, raw_text, log, outcomes, sessionVars, ctx>>

NextParse == ParseReply

SpecParse == InitParse /\ [][NextParse]_vars

InitInvoker ==
    /\ IdleInvoker
    /\ model_name \in ModelNames
    /\ result = None
    /\ history = <<>>
    /\ store = NoFile
    /\ FreshSession
    /\ ctx = NoContext

NextInvoker ==
    \/ \E m \in ModelNames : Call(m)
    \/ AttemptOk
    \/ AttemptRateLimit
    \/ Sleep
    \/ AttemptNotFound
    \/ AttemptOtherError
    \/ Exhausted

SpecInvoker == InitInvoker /\ [][NextInvoker]_vars

-----------------------------------------------------------------------------
(* fetch_available_models, lines 51-66, and its button, lines 161-169.     *)

\* The most models the provider lists in one call.
MaxListed == 3

\* The models genai.list_models() can yield: the resource name (the
\* namespace "models/", then the identifier) and supported_generation_methods.
ProviderModels ==
    { [name |-> <<"models/", "gemini-pro">>, methods |-> {"generateContent", "countTokens"}],
      [name |-> <<"models/", "gemini-1.5-flash">>, methods |-> {"generateContent"}],
      [name |-> <<"models/", "embedding-001">>, methods |-> {"embedContent"}] }

\* What the provider does in one call of fetch_available_models: configure
\* raises, or list_models raises after it yielded the models of `listed`, or
\* list_models yields `listed` and ends.
CatalogOutcomes ==
    UNION { { [fails |-> f, listed |-> l] : l \in [1..n -> ProviderModels] } :
            f \in {"no", "list_models"}, n \in 0..MaxListed }
      \cup { [fails |-> "configure", listed |-> <<>>] }

\* m.name.replace("models/", ""), line 62: every occurrence is removed.
CleanName(name) == SelectSeq(name, LAMBDA tok : tok # "models/")

\* Lines 57-63: the loop over the models the provider yielded.
RECURSIVE UsableModels(_)
UsableModels(listed) ==
    IF listed = <<>> THEN <<>>
    ELSE LET m == listed[Len(listed)]
             before == UsableModels(SubSeq(listed, 1, Len(listed) - 1))
         IN  IF "generateContent" \in m.methods
                 THEN Append(before, CleanName(m.name))
                 ELSE before

\* fetch_available_models, lines 55-66.
FetchKeepsPartialList(o) == UsableModels(o.listed)

FetchAvailableModels(o) ==
    IF o.fails # "no" THEN <<>> ELSE UsableModels(o.listed)

\* Lines 161-169: the model-lookup button of the sidebar (shown with an API key).
ClickFetchModels ==
    /\ \E o \in CatalogOutcomes :
          LET found_models == FetchAvailableModels(o)
          IN  /\ catalog' = [called |-> TRUE, fails |-> o.fails, listed |-> o.listed,
                             found |-> found_models]
              /\ available_models' =
                    IF found_models # <<>> THEN found_models ELSE available_models
    /\ UNCHANGED <<invokerVars, result, sessionVars, ctx, runVars, analysed>>

NextCatalog == ClickFetchModels

SpecCatalog == Init /\ [][NextCatalog]_vars

-----------------------------------------------------------------------------
(* search_web, lines 95-107.                                               *)

\* max_results of line 100.
max_results == 3

\* The summaries the provider returns; a result may come without a 'body'.
Bodies == {"injury news"}

NoBody == "(no body key)"

\* str(e) of the exceptions the provider raises.
SearchErrMsgs == { <<"202", "Ratelimit">>, <<>> }

\* What the provider does in one call of search_web: the constructor DDGS()
\* of line 96 raises, ddgs.text of line 100 raises, or it returns a list of
\* at most max_results results.
SearchOutcomes ==
    { [kind |-> "DDGS() raises", bodies |-> <<>>, msg |-> e] : e \in SearchErrMsgs } \cup
    { [kind |-> "text() raises", bodies |-> <<>>, msg |-> e] : e \in SearchErrMsgs } \cup
    UNION { { [kind |-> "results", bodies |-> b, msg |-> <<>>] :
                b \in [1..n -> Bodies \cup {NoBody}] } : n \in 0..max_results }

\* "검색 안함", line 203.
NotSearchedText == <<"search not used">>

\* "검색 결과 없음.", line 104.
NoResultsText == <<"no search results.">>

\* f"웹 검색 오류: {str(e)}", line 106.
SearchErrorText(msg) == <<"web search error: ">> \o msg

\* Line 102: txt += f"- {r['body']}\n" for the first k results.
RECURSIVE ResultLines(_, _)
ResultLines(bodies, k) ==
    IF k = 0 THEN <<>>
    ELSE ResultLines(bodies, k - 1) \o <<"- ", bodies[k], "LF">>

\* Whether the call of search_web raises to its caller: only line 96 is
\* outside the try.
SearchWebRaises(o) == o.kind = "DDGS() raises"

\* The string search_web returns, lines 98-107.  r['body'] of a result
\* without that key raises KeyError('body') inside the try.
SearchWeb(o) ==
    IF o.kind = "text() raises" THEN SearchErrorText(o.msg)
    ELSE IF o.bodies = <<>> THEN NoResultsText
    ELSE IF \E k \in 1..Len(o.bodies) : o.bodies[k] = NoBody
        THEN SearchErrorText(<<"'body'">>)
    ELSE ResultLines(o.bodies, Len(o.bodies))

-----------------------------------------------------------------------------
(* One run of the analysis button, step by step (lines 196-229).           *)

\* What the script reads from the sidebar and the upload widget at a click.
RunInputs ==
    [api_key : {TRUE}, use_search : BOOLEAN,
     files : FileBehaviours, model_name : ModelNames]

\* Lines 196-203: the click with an API key.
StartRun ==
    /\ stage = "idle"
    /\ \E in \in RunInputs :
          /\ run_in' = in
          /\ stage' = IF in.use_search THEN "search_web" ELSE "analyze"
    /\ search_res' = NotSearchedText
    /\ shown' = "running"
    /\ UNCHANGED <<invokerVars, result, history, store, last_analysis, home_in, away_in,
                   ctx, ddgs, analysed, catalogVars>>

\* The script run ends: the locals of the handler and of the functions it
\* called are gone.
EndRun ==
    /\ stage' = "idle"
    /\ run_in' = NoRun
    /\ search_res' = NoText
    /\ ddgs' = NoSearch
    /\ pc' = "idle"
    /\ attempt' = 0
    /\ raw_text' = NoText
    /\ log' = <<>>
    /\ outcomes' = <<>>
    /\ result' = None
    /\ UNCHANGED model_name

\* Lines 196-198: the click without an API key.
StartRunNoKey ==
    /\ stage = "idle"
    /\ AnalyzeNoKey

\* Lines 205-206: search_web returns its string.
SearchReturns ==
    /\ stage = "search_web"
    /\ \E o \in SearchOutcomes :
          /\ ~SearchWebRaises(o)
          /\ ddgs' = o
          /\ search_res' = SearchWeb(o)
    /\ stage' = "analyze"
    /\ UNCHANGED <<invokerVars, result, sessionVars, ctx, run_in, analysed, catalogVars>>

\* Lines 206 and 228-229: search_web raises; the except clause of the
\* handler reports it and the run is over.
SearchRaises ==
    /\ stage = "search_web"
    /\ \E o \in SearchOutcomes :
          /\ SearchWebRaises(o)
    /\ EndRun
    /\ shown' = "system error"
    /\ UNCHANGED <<history, store, last_analysis, home_in, away_in, ctx, analysed, catalogVars>>

\* Lines 209-211: the learning context, then the uploaded files are opened.
Prepare ==
    /\ stage = "analyze"
    /\ ctx' = LearningContext(history)
    /\ IF run_in.files = "not an image"
          THEN EndRun /\ shown' = "system error"
          ELSE /\ stage' = "analyze_match_final"
               /\ UNCHANGED <<invokerVars, result, run_in, search_res, ddgs, shown>>
    /\ UNCHANGED <<history, store, last_analysis, home_in, away_in, analysed, catalogVars>>

\* Line 138: analyze_match_final calls call_gemini_safe.
InvokeModelWhileSearching ==
    /\ stage \in {"search_web", "analyze_match_final"}
    /\ pc = "idle"
    /\ result = None
    /\ Call(run_in.model_name)

InvokeModel ==
    /\ stage = "analyze_match_final"
    /\ pc = "idle"
    /\ result = None
    /\ Call(run_in.model_name)

\* Lines 140-148 inside the run.
ParseInRun ==
    /\ stage = "analyze_match_final"
    /\ ParseReply

\* Lines 215-222.
RunComplete ==
    /\ stage = "analyze_match_final"
    /\ HasWinner(result)
    /\ last_analysis' = result
    /\ analysed' = <<home_in, away_in>>
    /\ EndRun
    /\ shown' = "complete"
    /\ UNCHANGED <<history, store, home_in, away_in, ctx, catalogVars>>

\* Lines 223-225.
RunError ==
    /\ stage = "analyze_match_final"
    /\ ~HasWinner(result)
    /\ HasError(result)
    /\ EndRun
    /\ shown' = "error"
    /\ UNCHANGED <<history, store, last_analysis, home_in, away_in, ctx, analysed, catalogVars>>

\* Lines 226-227.
RunFailed ==
    /\ stage = "analyze_match_final"
    /\ result # None
    /\ ~HasWinner(result)
    /\ ~HasError(result)
    /\ EndRun
    /\ shown' = "failed"
    /\ UNCHANGED <<history, store, last_analysis, home_in, away_in, ctx, analysed, catalogVars>>

NextPipeline ==
    \/ StartRun
    \/ StartRunNoKey
    \/ SearchReturns
    \/ SearchRaises
    \/ Prepare
    \/ InvokeModel
    \/ AttemptOk
    \/ AttemptRateLimit
    \/ Sleep
    \/ AttemptNotFound
    \/ AttemptOtherError
    \/ Exhausted
    \/ ParseInRun
    \/ RunComplete
    \/ RunError
    \/ RunFailed

SpecPipeline == Init /\ [][NextPipeline]_vars

-----------------------------------------------------------------------------
(* Claims about call_gemini_safe, checked under SpecInvoker.               *)

\* The signals as the specification names them, read off the error text.
RateLimitSignal(err_msg) == In("429", err_msg) \/ In("quota", LowerText(err_msg))

UnknownModelSignal(err_msg) == In("404", err_msg)

NumEv(ev) == Cardinality({i \in 1..Len(log) : log[i].ev = ev})

Failed(i) == ~outcomes[i].ok

AllRateLimited ==
    \A i \in 1..Len(outcomes) : Failed(i) /\ RateLimitSignal(outcomes[i].text)

\* C1: a call never makes more than 3 attempts, and a call whose every attempt
\* failed with a rate-limit/quota signal made exactly 3 attempts and returned
\* the retries-exhausted error text.
C1_AtMostThreeAttempts ==
    /\ NumEv("generate_content") <= 3
    /\ Len(outcomes) = NumEv("generate_content")
    /\ (pc = "returned" /\ AllRateLimited) =>
           /\ NumEv("generate_content") = 3
           /\ raw_text = ExhaustedText

C1_Witness ==
    /\ pc = "returned"
    /\ Len(outcomes) = 3
    /\ AllRateLimited
    /\ raw_text = ExhaustedText

\* C2 (as claimed): an attempt that fails with an unknown-model signal is the
\* last thing the call does: the call has returned the error text naming the
\* model, and no warning, sleep or further attempt follows that failure.
C2_UnknownModelReturnsAtOnce ==
    \A i \in 1..Len(outcomes) :
        (Failed(i) /\ UnknownModelSignal(outcomes[i].text)) =>
            /\ i = Len(outcomes)
            /\ pc = "returned"
            /\ raw_text = NotFoundText(model_name)
            /\ \E k \in 1..Len(raw_text) : raw_text[k] = model_name
            /\ log[Len(log)].ev = "generate_content"

\* What the code does guarantee: C2 for an error text that carries the
\* unknown-model signal and no rate-limit/quota signal.
UnknownModelWithoutRateSignalReturnsAtOnce ==
    \A i \in 1..Len(outcomes) :
        (/\ Failed(i)
         /\ UnknownModelSignal(outcomes[i].text)
         /\ ~RateLimitSignal(outcomes[i].text)) =>
            /\ i = Len(outcomes)
            /\ pc = "returned"
            /\ raw_text = NotFoundText(model_name)
            /\ log[Len(log)].ev = "generate_content"

\* C3: an attempt that fails with neither a rate-limit/quota signal nor an
\* unknown-model signal ends the call at once: the call has returned "ERROR:"
\* followed by the raw error text, and no warning, sleep or attempt follows.
C3_OtherErrorReturnsAtOnce ==
    \A i \in 1..Len(outcomes) :
        (/\ Failed(i)
         /\ ~RateLimitSignal(outcomes[i].text)
         /\ ~UnknownModelSignal(outcomes[i].text)) =>
            /\ i = Len(outcomes)
            /\ pc = "returned"
            /\ raw_text = <<"ERROR:">> \o outcomes[i].text
            /\ log[Len(log)].ev = "generate_content"
            /\ NumEv("time.sleep") = i - 1

C3_Witness ==
    /\ pc = "returned"
    /\ Len(outcomes) = 2
    /\ Failed(2)
    /\ ~RateLimitSignal(outcomes[2].text)
    /\ ~UnknownModelSignal(outcomes[2].text)
    /\ raw_text = <<"ERROR:">> \o outcomes[2].text

\* C4 (as claimed): in a call that has returned, every backoff sleep was
\* followed by another attempt, so the call slept at most 2 times.
C4_EverySleepIsFollowedByAnAttempt ==
    pc = "returned" =>
        /\ \A i \in 1..Len(log) :
              log[i].ev = "time.sleep" =>
                  \E j \in (i + 1)..Len(log) : log[j].ev = "generate_content"
        /\ NumEv("time.sleep") <= 2

\* What the code does guarantee about the backoff: every sleep lasts 60 and
\* comes directly after the warning of the rate-limited attempt before it.
EverySleepIsTheFixedBackoffAfterAWarning ==
    \A i \in 1..Len(log) :
        log[i].ev = "time.sleep" =>
            /\ log[i].arg = 60
            /\ i > 1
            /\ log[i - 1].ev = "st.warning"

\* C5: a call whose n-th attempt succeeded has returned that attempt's text
\* unchanged after exactly n attempts (n <= 3), and each of the n-1 failures
\* before it showed one warning, directly before its wait.
C5_SuccessReturnsTextVerbatim ==
    \A n \in 1..Len(outcomes) :
        outcomes[n].ok =>
            /\ n = Len(outcomes)
            /\ n <= 3
            /\ pc = "returned"
            /\ raw_text = outcomes[n].text
            /\ NumEv("generate_content") = n
            /\ log[Len(log)].ev = "generate_content"
            /\ NumEv("st.warning") = n - 1
            /\ \A i \in 1..(n - 1) : Failed(i) /\ RateLimitSignal(outcomes[i].text)
            /\ \A k \in 1..Len(log) :
                  log[k].ev = "st.warning" =>
                      /\ k < Len(log)
                      /\ log[k + 1].ev = "time.sleep"
                      /\ log[k - 1] = Event("generate_content", log[k].arg)

C5_Witness ==
    /\ pc = "returned"
    /\ Len(outcomes) = 3
    /\ outcomes[3].ok
    /\ raw_text = outcomes[3].text
    /\ NumEv("st.warning") = 2

\* The step-by-step call and the function CallGeminiSafe agree on what a call
\* returns for the answers the provider gave.
StepwiseCallAgreesWithCallGeminiSafe ==
    pc = "returned" =>
        /\ raw_text = CallGeminiSafe(model_name, outcomes)
        /\ raw_text \in InvokerReturns

-----------------------------------------------------------------------------
(* Claims about the ledger, checked under SpecLedger.                      *)

\* A step in which save_result ran: it is the only writer of the file.
RecordStep == store' # store

CorrectlyMarked(row) == row.Correct = PyEq(row.AI_Pick, row.Result)

\* What one save_result does to the in-memory ledger: one row more, the rows
\* before it untouched, the new row marked by string equality of its pick and
\* its result.
AppendsOneEntry ==
    /\ Len(history') = Len(history) + 1
    /\ SubSeq(history', 1, Len(history)) = history
    /\ LET row == history'[Len(history')]
       IN  /\ row.AI_Pick.t = "str"
           /\ row.Result.t = "str"
           /\ row.Correct = (row.AI_Pick.s = row.Result.s)

\* C6 (as claimed): every save_result appends exactly one correctly marked
\* entry and leaves the earlier entries alone, every entry of the ledger is
\* always marked correct = (AI_Pick == Result), and the ledger never shrinks.
C6_LedgerEntriesAreCorrectlyMarked ==
    [][ /\ RecordStep => AppendsOneEntry
        /\ \A i \in 1..Len(history') : CorrectlyMarked(history'[i])
        /\ Len(history') >= Len(history) ]_vars

\* What the code does guarantee of C6: the effect of each save_result, and a
\* ledger that never shrinks, also across the reload of a new session.
RecordAppendsOneEntryAndLedgerNeverShrinks ==
    [][ /\ RecordStep => AppendsOneEntry
        /\ Len(history') >= Len(history) ]_vars

\* C8 (as claimed): after every save_result the file holds the whole
\* in-memory ledger, a session that loads the file has the same ledger, and
\* so the same learning context.
C8_StoreReloadsToTheSameLedger ==
    [][ RecordStep =>
          /\ store'.exists
          /\ store'.rows = WriteCsv(history')
          /\ ReadCsv(store'.rows) = history'
          /\ LearningContext(ReadCsv(store'.rows)) = LearningContext(history') ]_vars

\* What the code does guarantee of C8: the file always holds one row per
\* entry, and reloading it keeps the order of the rows, their Correct marks
\* and therefore the learning context.
ReloadKeepsMarksAndLearningContext ==
    store.exists =>
        LET loaded == ReadCsv(store.rows)
        IN  /\ Len(loaded) = Len(history)
            /\ \A i \in 1..Len(history) : loaded[i].Correct = history[i].Correct
            /\ LearningContext(loaded) = LearningContext(history)

\* The reload is exact for a ledger whose cells are all plain words: neither
\* one of read_csv's na_values nor a number.
PlainWordsReloadUnchanged ==
    (/\ store.exists
     /\ history # <<>>
     /\ \A i \in 1..Len(history) : \A c \in ValueColumns :
           /\ history[i][c].t = "str"
           /\ history[i][c].s \notin NaStrings
           /\ ~IsFloatText(history[i][c].s)) =>
        ReadCsv(store.rows) = history

PlainWordsReloadUnchangedWitness ==
    /\ Len(history) = 2
    /\ ReadCsv(store.rows) = history

-----------------------------------------------------------------------------
(* Claim about the handlers, checked under Spec.                           *)

\* One of the three buttons of lines 246-248 was clicked.
OutcomeReported ==
    /\ Truthy(last_analysis)
    /\ shown' = "none"
    /\ \E actual_result \in {home_in, DrawLabel, away_in} :
          history' = Append(history, NewData(Str(home_in), Str(away_in),
                                             Str(last_analysis.winner), Str(actual_result)))
    /\ store' = File(WriteCsv(history'))

\* C7: a run of the analysis button, however it ends (shown' tells how),
\* leaves the in-memory ledger and the file as they were; a step that writes
\* the file or adds or removes a ledger row is one of the three
\* outcome-reporting actions.
C7_RunsNeverWriteTheLedger ==
    [][ /\ shown' # "none" => (history' = history /\ store' = store)
        /\ (store' # store \/ Len(history') # Len(history)) => OutcomeReported ]_vars

C7_Witness ==
    /\ shown = "error"
    /\ Len(history) = 1
    /\ store = File(WriteCsv(history))
    /\ Truthy(last_analysis)

-----------------------------------------------------------------------------
(* Claim about get_learning_context, checked under SpecContext.            *)

\* C9: the learning context of an empty ledger is the no-history text; that
\* of a ledger of n > 0 rows, c of them correct, reports total = n and the
\* tenth of a percent nearest to 100 * c / n.
C9_LearningContextReportsTotalAndPercentage ==
    ctx # NoContext =>
        LET n == Len(history)
            c == Cardinality({i \in 1..n : history[i].Correct})
        IN  IF n = 0 THEN ctx = NoHistoryText
            ELSE /\ ~ctx.empty
                 /\ ctx.total = n
                 /\ 2 * n * ctx.acc <= 2000 * c + n
                 /\ 2000 * c <= 2 * n * ctx.acc + n

C9_Witness ==
    /\ Len(history) = 3
    /\ ctx = [empty |-> FALSE, total |-> 3, acc |-> 667]

-----------------------------------------------------------------------------
(* Claim about the reply parser, checked under SpecParse.                  *)

Parsed == result # None

\* C10 (as claimed): for a text that is no invoker error, when no
\* brace-delimited object is found or the span from the first "{" to the last
\* "}" is not JSON, the result is an error dict that carries the raw text.
C10_ParseFailureKeepsTheRawText ==
    (/\ Parsed
     /\ ~In("ERROR:", raw_text)
     /\ (~HasMatch(raw_text) \/ ~IsJsonObject(MatchGroup(raw_text)))) =>
        /\ "error" \in result.keys
        /\ "winner" \notin result.keys
        /\ \/ "raw" \in result.keys /\ result.raw = raw_text
           \/ result.error = raw_text

\* What the code does guarantee of C10: the case where no object is found.
NoObjectFoundKeepsTheRawText ==
    (Parsed /\ ~In("ERROR:", raw_text) /\ ~HasMatch(raw_text)) =>
        /\ "error" \in result.keys
        /\ "raw" \in result.keys
        /\ result.raw = raw_text

-----------------------------------------------------------------------------
(* Claims about one run of the analysis button, checked under SpecPipeline. *)

\* analyze_match_final has parsed the reply of this run and not yet returned.
ParsedInRun == stage = "analyze_match_final" /\ result # None

\* call_gemini_safe returned the text of a successful generate_content.
InvocationSucceeded == outcomes # <<>> /\ outcomes[Len(outcomes)].ok

\* C11 (as claimed): the reply is handed on as the invoker's error, with no
\* JSON extraction, exactly when call_gemini_safe returned through one of its
\* error paths; the text of a successful invocation always goes through the
\* JSON extraction.
C11_InvokerErrorExactlyOnErrorPaths ==
    ParsedInRun =>
        IF InvocationSucceeded
            THEN result = ExtractJson(raw_text)
            ELSE result = InvokerError(raw_text)

\* What the code does guarantee of C11: a text from an error path (retries
\* exhausted, unknown model, other error) is always handed on as the
\* invoker's error, and a successful text without the characters "ERROR:"
\* always goes through the extraction.
ErrorPathsAreAlwaysPropagated ==
    ParsedInRun =>
        /\ ~InvocationSucceeded => result = InvokerError(raw_text)
        /\ (InvocationSucceeded /\ ~In("ERROR:", raw_text)) => result = ExtractJson(raw_text)

ErrorPathsAreAlwaysPropagatedWitness ==
    /\ ParsedInRun
    /\ ~InvocationSucceeded
    /\ raw_text = NotFoundText(model_name)
    /\ result = InvokerError(raw_text)

\* Text msg occurs inside text.
Embeds(text, msg) ==
    \E k \in 1..(Len(text) - Len(msg) + 1) : SubSeq(text, k, k + Len(msg) - 1) = msg

\* What the step that leaves search_web must look like when search_web
\* returned: a non-empty string, with the failure description if the provider
\* failed and the no-results text if it found nothing.
GatherReturnedEvidence ==
    /\ stage' = "analyze"
    /\ search_res' # NoText
    /\ ddgs'.kind \in {"text() raises", "results"}
    /\ ddgs'.kind = "text() raises" =>
           /\ Embeds(search_res', ddgs'.msg)
           /\ Len(search_res') > Len(ddgs'.msg)
    /\ (ddgs'.kind = "results" /\ ddgs'.bodies = <<>>) => search_res' = NoResultsText

\* C12 (as claimed): search_web never raises: whatever the search provider
\* does, the step that leaves search_web hands the run a non-empty string
\* (with the failure description after a failure, the no-results text after
\* zero results) and the run goes on towards the model invocation.
C12_GatherNeverAbortsTheRun ==
    [][ stage = "search_web" => GatherReturnedEvidence ]_vars

\* What the code does guarantee of C12: whenever search_web returns, it
\* returns such a string; a failure of ddgs.text (line 100) or of reading a
\* result (line 102) is inside the try and never reaches the handler.
GatherReturnsEvidenceWheneverItReturns ==
    [][ (stage = "search_web" /\ stage' # "idle") => GatherReturnedEvidence ]_vars

GatherReturnsEvidenceWitness ==
    /\ stage = "analyze"
    /\ ddgs.kind = "text() raises"
    /\ ddgs.msg # <<>>
    /\ search_res = SearchErrorText(ddgs.msg)

\* call_gemini_safe has been entered in this run.
InvocationStarted == pc # "idle" \/ log # <<>> \/ outcomes # <<>>

\* The evidence stage is over: search_web has returned its string when the
\* search is on, and was never called when it is off.
EvidenceReady ==
    IF run_in.use_search
        THEN ddgs # NoSearch /\ search_res # NoText /\ search_res # NotSearchedText
        ELSE ddgs = NoSearch /\ search_res = NotSearchedText

\* C17: within a run the stages follow one another: the model is invoked
\* only after the evidence stage is over, the reply is parsed only after
\* call_gemini_safe has returned and no attempt follows the parsing, and a
\* click without an API key searches nothing, invokes nothing and changes no
\* state but the message shown.
C17_StagesAreSequential ==
    /\ [](InvocationStarted =>
             /\ stage = "analyze_match_final"
             /\ run_in.api_key
             /\ EvidenceReady)
    /\ [][ /\ ddgs' # ddgs /\ stage' # "idle" => ~InvocationStarted /\ ~InvocationStarted'
           /\ (result = None /\ result' # None) =>
                 /\ pc = "returned"
                 /\ result' = AnalyzeReply(raw_text)
                 /\ log' = log
           /\ (result # None /\ stage' # "idle") => (log' = log /\ ddgs' = ddgs)
           /\ shown' = "no key" =>
                 /\ stage = "idle" /\ stage' = "idle"
                 /\ UNCHANGED <<invokerVars, result, history, store, last_analysis,
                                home_in, away_in, ctx, run_in, search_res, ddgs,
                                analysed, catalogVars>> ]_vars

C17_Witness ==
    /\ stage = "analyze_match_final"
    /\ run_in.use_search
    /\ ddgs.kind = "results"
    /\ Len(ddgs.bodies) = 2
    /\ Len(outcomes) = 2
    /\ outcomes[2].ok
    /\ result = AnalyzeReply(raw_text)
    /\ HasWinner(result)

\* A click without an API key after a completed run.
C17_NoKeyWitness ==
    /\ shown = "no key"
    /\ stage = "idle"
    /\ last_analysis # None
    /\ log = <<>>

-----------------------------------------------------------------------------
(* Claim about fetch_available_models, checked under SpecCatalog.          *)

\* The positions of the listed models that support content generation.
Generating == {i \in 1..Len(catalog.listed) :
                  "generateContent" \in catalog.listed[i].methods}

\* The k-th of them, in provider order.
KthGenerating(k) ==
    CHOOSE i \in Generating : Cardinality({j \in Generating : j < i}) = k - 1

\* C13: a call of fetch_available_models always returns: the empty list when
\* configure or list_models failed, and otherwise, in the provider's order,
\* exactly the models that support generateContent, each name without its
\* "models/" prefix.
C13_CatalogIsEmptyOnFailureAndFilteredOnSuccess ==
    catalog.called =>
        IF catalog.fails # "no" THEN catalog.found = <<>>
        ELSE /\ Len(catalog.found) = Cardinality(Generating)
             /\ \A k \in 1..Len(catalog.found) :
                   catalog.listed[KthGenerating(k)].name = <<"models/">> \o catalog.found[k]

C13_Witness ==
    /\ catalog.called
    /\ catalog.fails = "no"
    /\ Len(catalog.listed) = 3
    /\ catalog.found = << <<"gemini-1.5-flash">>, <<"gemini-pro">> >>
    /\ available_models = catalog.found

\* A failure after the provider had listed usable models.
C13_FailureWitness ==
    /\ catalog.called
    /\ catalog.fails = "list_models"
    /\ Generating # {}
    /\ catalog.found = <<>>

-----------------------------------------------------------------------------
(* Claims about the outcome buttons and last_analysis, checked under Spec. *)

\* The entry a step appended to the ledger.
NewEntry == history'[Len(history')]

\* The winner of the shown prediction is one of the three values the prompt
\* of lines 124-132 allows for the fixture in the inputs.
AllowedWinner == last_analysis.winner \in {home_in, away_in, "Draw"}

\* C14 (as claimed): when the shown prediction names the home team, the away
\* team or "Draw", the home-win, draw or away-win button records an entry
\* that is correct exactly when the reported outcome is the predicted one;
\* a predicted home win reported on an empty ledger gives accuracy 100.0%.
C14_OutcomeButtonsAgreeWithTheWinnerContract ==
    [][ (RecordStep /\ AllowedWinner) =>
          /\ NewEntry.Result = Str(home_in) =>
                 NewEntry.Correct = (last_analysis.winner = home_in)
          /\ NewEntry.Result = Str(DrawLabel) =>
                 NewEntry.Correct = (last_analysis.winner = "Draw")
          /\ NewEntry.Result = Str(away_in) =>
                 NewEntry.Correct = (last_analysis.winner = away_in)
          /\ (history = <<>> /\ NewEntry.Result = Str(home_in)
                 /\ last_analysis.winner = home_in) =>
                 LearningContext(history') = [empty |-> FALSE, total |-> 1, acc |-> 1000] ]_vars

\* What the code does guarantee of C14: the home-win and away-win buttons.
HomeAndAwayButtonsAgreeWithTheWinnerContract ==
    [][ (RecordStep /\ AllowedWinner) =>
          /\ NewEntry.Result = Str(home_in) =>
                 NewEntry.Correct = (last_analysis.winner = home_in)
          /\ NewEntry.Result = Str(away_in) =>
                 NewEntry.Correct = (last_analysis.winner = away_in)
          /\ (history = <<>> /\ NewEntry.Result = Str(home_in)
                 /\ last_analysis.winner = home_in) =>
                 LearningContext(history') = [empty |-> FALSE, total |-> 1, acc |-> 1000] ]_vars

HomeAndAwayButtonsWitness ==
    /\ Len(history) = 1
    /\ history[1].AI_Pick = Str("A")
    /\ history[1].Result = Str("A")
    /\ history[1].Correct
    /\ LearningContext(history).acc = 1000

\* C15 (as claimed): an outcome button records the shown prediction against
\* the fixture of the run that produced it, whatever fixture edits and failed
\* runs came in between.
C15_EntryPairsPredictionWithItsOwnFixture ==
    [][ RecordStep =>
          /\ analysed # NoFixture
          /\ NewEntry.Home = Str(analysed[1])
          /\ NewEntry.Away = Str(analysed[2])
          /\ NewEntry.AI_Pick = Str(last_analysis.winner) ]_vars

\* What the code does guarantee of C15: the entry records the fixture in the
\* inputs at the click, with the winner of the last successful run.
EntryRecordsTheInputsAtTheClick ==
    [][ RecordStep =>
          /\ analysed # NoFixture
          /\ NewEntry.Home = Str(home_in)
          /\ NewEntry.Away = Str(away_in)
          /\ NewEntry.AI_Pick = Str(last_analysis.winner) ]_vars

EntryRecordsTheInputsWitness ==
    /\ Len(history) = 1
    /\ analysed = <<"A", "B">>
    /\ history[1].Home = Str("NA")
    /\ history[1].AI_Pick = Str("A")

\* The step is not the start of a new session.
SameSession == ~(shown' = "none" /\ last_analysis' = None /\ analysed' = NoFixture
                 /\ home_in' = DefaultFixture[1] /\ away_in' = DefaultFixture[2]
                 /\ store' = store)

\* C16: last_analysis is None or a parsed reply with a winner; within a
\* session it never goes back to None; and the ledger gets an entry only
\* when last_analysis is set, with the winner of that parsed reply.
C16_LastAnalysisIsAbsentOrHasAWinner ==
    /\ [](last_analysis # None =>
             /\ last_analysis \in AnalysisResults
             /\ ~last_analysis.isNone
             /\ "winner" \in last_analysis.keys)
    /\ [][ /\ (last_analysis # None /\ SameSession) => last_analysis' # None
           /\ (history' # history /\ SameSession) =>
                 /\ last_analysis # None
                 /\ "winner" \in last_analysis.keys
                 /\ Len(history') = Len(history) + 1
                 /\ NewEntry.AI_Pick = Str(last_analysis.winner) ]_vars

C16_Witness ==
    /\ Len(history) = 1
    /\ last_analysis # None
    /\ shown = "error"
    /\ history[1].AI_Pick = Str(last_analysis.winner)

====
